---- MODULE Spec2Model ----
(***************************************************************************)
(* Orbit build-time automation scripts (Automation/*.py).                  *)
(*                                                                         *)
(* Every script is one sequential process: fetch token data, parse it,     *)
(* render source text and asset manifests, write them to the working tree. *)
(* A behaviour runs one script (variable script); the color generator may  *)
(* be run again and again on the same tree, in either mode.                *)
(*                                                                         *)
(* Text is modelled at two levels: the strings the scripts take apart      *)
(* (token keys, glyph names, rgb values, versions) are sequences of        *)
(* one-character strings, so that the regular expressions and the case     *)
(* conversions are computed character by character; the text they render   *)
(* (source lines, file contents, paths) are TLA+ strings built with \o.    *)
(***************************************************************************)
EXTENDS Integers, Sequences, FiniteSets, TLC

VARIABLES
    script,               \* which script this process runs
    pc,                   \* position of the process in the script
    dirs,                 \* working tree: the directories that exist (paths)
    files,                \* working tree: the files, [path, content] records
    stdout,               \* lines printed so far
    exitCode,             \* exit status once the process has ended, else -1
    \* update_colors.py
    checkOnly,            \* "--check-only" in sys.argv
    colors,               \* get_updated_colors(): key -> value
    todo,                 \* what the for loop has not visited yet
    lastColorGroup,
    sourceColorLines,
    sourceUIColorLines,
    entry,                \* locals of the latest loop iteration
    listing,              \* which token produced each element of sourceColorLines
    jira,                 \* the tracker as create() found it, and what create() did
    generatedFrom,        \* token data of the latest completed non-dry-run run
    \* update_icons.py
    icon_values,          \* dictionary_from_xml(): (glyph name, unicode) in document order
    case_lines,
    value_lines,
    value_extension_lines,
    \* update_illustrations.py
    illustration_listing, \* get_illustration_names()
    illustration_names,
    attempts,             \* each illustration visited and how its download and resize went
    \* get_simulator.py
    argv,                 \* simulator_name and ios_version
    simulators_json,      \* "devices" of the inventory: runtime id -> devices
    simulator_id,
    toolCalls             \* the xcrun simctl invocations made, and how each ended

----------------------------------------------------------------------------
(* Characters and strings                                                  *)

UpperSeq ==
    << "A","B","C","D","E","F","G","H","I","J","K","L","M",
       "N","O","P","Q","R","S","T","U","V","W","X","Y","Z" >>

LowerSeq ==
    << "a","b","c","d","e","f","g","h","i","j","k","l","m",
       "n","o","p","q","r","s","t","u","v","w","x","y","z" >>

DigitSeq == << "0","1","2","3","4","5","6","7","8","9" >>

HexSeq == DigitSeq \o << "a","b","c","d","e","f" >>

Range(s) == { s[i] : i \in DOMAIN s }

Upper == Range(UpperSeq)
Lower == Range(LowerSeq)
Digit == Range(DigitSeq)

IndexOf(seq, c) == CHOOSE i \in DOMAIN seq : seq[i] = c

\* str.lower() and str.upper() on one character
ToLower(c) == IF c \in Upper THEN LowerSeq[IndexOf(UpperSeq, c)] ELSE c
ToUpper(c) == IF c \in Lower THEN UpperSeq[IndexOf(LowerSeq, c)] ELSE c

\* ord(): the code point, which is what Python orders strings by
Ord(c) ==
    IF c \in Upper THEN 64 + IndexOf(UpperSeq, c)
    ELSE IF c \in Lower THEN 96 + IndexOf(LowerSeq, c)
    ELSE IF c \in Digit THEN 47 + IndexOf(DigitSeq, c)
    ELSE CASE c = " " -> 32
           [] c = "(" -> 40
           [] c = ")" -> 41
           [] c = "," -> 44
           [] c = "-" -> 45
           [] c = "." -> 46

\* Python's < on two strings
RECURSIVE StrLess(_, _)
StrLess(a, b) ==
    IF b = << >> THEN FALSE
    ELSE IF a = << >> THEN TRUE
    ELSE IF Head(a) = Head(b) THEN StrLess(Tail(a), Tail(b))
    ELSE Ord(Head(a)) < Ord(Head(b))

\* a character sequence as the text it spells
RECURSIVE Str(_)
Str(s) == IF s = << >> THEN "" ELSE Head(s) \o Str(Tail(s))

\* sep.join(lines), on rendered text
RECURSIVE Join(_, _)
Join(sep, lines) ==
    IF lines = << >> THEN ""
    ELSE IF Len(lines) = 1 THEN lines[1]
    ELSE lines[1] \o sep \o Join(sep, Tail(lines))

\* "".join(tokens), on character sequences
RECURSIVE Concat(_)
Concat(tokens) ==
    IF tokens = << >> THEN << >> ELSE Head(tokens) \o Concat(Tail(tokens))

\* " ".join(tokens), on character sequences
RECURSIVE JoinChars(_, _)
JoinChars(sep, tokens) ==
    IF tokens = << >> THEN << >>
    ELSE IF Len(tokens) = 1 THEN tokens[1]
    ELSE tokens[1] \o sep \o JoinChars(sep, Tail(tokens))

\* length of the longest run of characters of class cls starting at s[i]
RECURSIVE RunLen(_, _, _)
RunLen(s, i, cls) ==
    IF i > Len(s) \/ s[i] \notin cls THEN 0 ELSE 1 + RunLen(s, i + 1, cls)

\* sorted(keys): ascending by StrLess, smallest first
RECURSIVE Sorted(_)
Sorted(keys) ==
    IF keys = {} THEN << >>
    ELSE LET least == CHOOSE k \in keys : \A o \in keys \ {k} : StrLess(k, o)
         IN  << least >> \o Sorted(keys \ {least})

----------------------------------------------------------------------------
(* The working tree                                                        *)

IsUnder(path, root) ==
    Len(path) >= Len(root) /\ SubSeq(path, 1, Len(root)) = root

\* Variant: the tree is left in place
RmTreeDirs_Kept(ds, root) == ds

\* shutil.rmtree(root, ignore_errors = True)
RmTreeDirs(ds, root) == { d \in ds : ~IsUnder(d, root) }
RmTreeFiles(fs, root) == { f \in fs : ~IsUnder(f.path, root) }

\* open(path, "w").write(content): the file is created or overwritten
WriteFile(fs, path, content) ==
    { f \in fs : f.path # path } \cup { [path |-> path, content |-> content] }

\* open(path).read()
ReadFile(fs, path) == (CHOOSE f \in fs : f.path = path).content

FileExists(fs, path) == \E f \in fs : f.path = path

----------------------------------------------------------------------------
(* update_colors.py: constants and templates                               *)

ORBIT_COLOR_PREFIX == << "p","a","l","e","t","t","e" >>

contents_filename == "Contents.json"

xcassets_header ==
    "{\n  \"info\" : {\n    \"author\" : \"xcode\",\n    \"version\" : 1\n  }\n}\n"

xcassets_color_template(R, G, B) ==
    "{\n  \"colors\" : [\n    {\n      \"color\" : {\n"
    \o "        \"color-space\" : \"srgb\",\n        \"components\" : {\n"
    \o "          \"alpha\" : \"1.000\",\n"
    \o "          \"blue\" : \"0x" \o B \o "\",\n"
    \o "          \"green\" : \"0x" \o G \o "\",\n"
    \o "          \"red\" : \"0x" \o R \o "\"\n"
    \o "        }\n      },\n      \"idiom\" : \"universal\"\n    }\n  ],\n"
    \o "  \"info\" : {\n    \"author\" : \"xcode\",\n    \"version\" : 1\n  }\n}\n"

source_filename_plural == "Colors"

source_group_template(group) == "\n    // MARK: - " \o group

source_line_template(name, description) ==
    "    static let " \o name \o " = Color(\"" \o description
    \o "\", bundle: .current)"

source_line_template_uicolor(name, description) ==
    "    static let " \o name \o " = fromResource(named: \"" \o description
    \o "\")"

source_template(colorList) ==
    "/// Generated and updated by 'Automation/orbit/update_colors.py'\n"
    \o "// swiftlint:disable:previous orphaned_doc_comment\n\nimport SwiftUI\n\n"
    \o "public extension Color {\n" \o colorList \o "\n}\n"

source_template_uicolor(colorList) ==
    "/// Generated and updated by 'Automation/orbit/update_colors.py'\n"
    \o "// swiftlint:disable:previous orphaned_doc_comment\n\nimport UIKit\n\n"
    \o "public extension UIColor {\n" \o colorList \o "\n}\n"

----------------------------------------------------------------------------
(* update_colors.py: helpers                                               *)

\* s[:1].lower() + s[1:]   (the condition `if str` tests the builtin type,
\* which is always true, so the '' branch is never taken)
lowercase_first_letter(s) ==
    IF s = << >> THEN << >> ELSE << ToLower(Head(s)) >> \o Tail(s)

\* One match of [A-Z](?:[a-z]+|[A-Z]*(?=[A-Z]|$)) starting at s[i]: the index
\* of its last character, or 0 when the pattern does not match there.
\* First alternative: one or more lower-case letters, greedy.  Second
\* alternative: the longest run of upper-case letters, backed off until the
\* lookahead (an upper-case letter, or the end of the string) holds.
CamelTokenEnd(s, i) ==
    IF s[i] \notin Upper THEN 0
    ELSE LET low == RunLen(s, i + 1, Lower) IN
         IF low >= 1 THEN i + low
         ELSE LET up == RunLen(s, i + 1, Upper)
                  ahead(k) == i + k = Len(s) \/ s[i + k + 1] \in Upper
                  ks == { k \in 0..up : ahead(k) }
              IN  IF ks = {} THEN 0
                  ELSE i + (CHOOSE k \in ks : \A o \in ks : o <= k)

\* re.findall(pattern, s) from position i on: non-overlapping, left to right
RECURSIVE CamelFindAll(_, _)
CamelFindAll(s, i) ==
    IF i > Len(s) THEN << >>
    ELSE LET e == CamelTokenEnd(s, i) IN
         IF e = 0 THEN CamelFindAll(s, i + 1)
         ELSE << SubSeq(s, i, e) >> \o CamelFindAll(s, e + 1)

\* Variant: the pattern also takes a lower-case first letter, [A-Za-z]...,
\* so that the leading lower-case word of a key is a token too
camel_case_split_AnyCase(str) ==
    IF str # << >> /\ Head(str) \in Lower
    THEN LET tokens == CamelFindAll(<< ToUpper(Head(str)) >> \o Tail(str), 1)
         IN  << << Head(str) >> \o Tail(Head(tokens)) >> \o Tail(tokens)
    ELSE CamelFindAll(str, 1)

camel_case_split(str) == CamelFindAll(str, 1)

\* re.findall(r'\d+', s) from position i on
RECURSIVE DigitRuns(_, _)
DigitRuns(s, i) ==
    IF i > Len(s) THEN << >>
    ELSE LET n == RunLen(s, i, Digit) IN
         IF n = 0 THEN DigitRuns(s, i + 1)
         ELSE << SubSeq(s, i, i + n - 1) >> \o DigitRuns(s, i + n)

\* int(str) of a run of decimal digits
RECURSIVE ToInt(_)
ToInt(digits) ==
    IF digits = << >> THEN 0
    ELSE 10 * ToInt(SubSeq(digits, 1, Len(digits) - 1))
         + (IndexOf(DigitSeq, digits[Len(digits)]) - 1)

\* format(n, 'x'): lower-case hexadecimal digits, no padding
RECURSIVE HexDigits(_)
HexDigits(n) ==
    IF n < 16 THEN << HexSeq[n + 1] >>
    ELSE HexDigits(n \div 16) \o << HexSeq[(n % 16) + 1] >>

\* zero-padding on the left to at least `width` characters
RECURSIVE ZeroFill(_, _)
ZeroFill(s, width) == IF Len(s) >= width THEN s ELSE ZeroFill(<< "0" >> \o s, width)

\* '{0:0{1}x}'.format(int(str), 2).upper()
str_to_hexa(str) ==
    [ i \in DOMAIN ZeroFill(HexDigits(ToInt(str)), 2)
        |-> ToUpper(ZeroFill(HexDigits(ToInt(str)), 2)[i]) ]

----------------------------------------------------------------------------
(* update_colors.py: the remote token document                             *)

\* The tokens the remote document may hold (theo-spec.json is a flat
\* key -> value object).  Besides ordinary palette entries the pool holds
\* an entry the generator skips (paletteWhite), three keys with an acronym
\* token, an entry whose value lacks a component, and a key of another
\* token family.
OrbitTokens ==
    { [ key   |-> ORBIT_COLOR_PREFIX \o << "B","l","u","e","N","o","r","m","a","l" >>,
        value |-> << "r","g","b","(","0",",","9","1",",","1","7","2",")" >> ],
      [ key   |-> ORBIT_COLOR_PREFIX \o << "W","h","i","t","e" >>,
        value |-> << "r","g","b","(","2","5","5",","," ","2","5","5",","," ","2","5","5",")" >> ],
      [ key   |-> ORBIT_COLOR_PREFIX \o << "U","I","B","l","u","e" >>,
        value |-> << "r","g","b","(","1","0",",","1","1","2",",","1","9","0",")" >> ],
      [ key   |-> ORBIT_COLOR_PREFIX \o << "U","I","C" >>,
        value |-> << "r","g","b","(","2","4","5",",","2","4","7",",","2","4","9",")" >> ],
      [ key   |-> ORBIT_COLOR_PREFIX \o << "U","I","C","a","r","d" >>,
        value |-> << "r","g","b","(","2","3","2",",","2","3","7",",","2","4","1",")" >> ],
      [ key   |-> ORBIT_COLOR_PREFIX \o << "I","n","k","D","a","r","k" >>,
        value |-> << "r","g","b","(","3","7",",","4","2",")" >> ],
      [ key   |-> << "c","o","l","o","r","T","e","x","t" >>,
        value |-> << "r","g","b","(","3","7",",","4","2",",","4","9",")" >> ] }

\* most entries one remote document holds
MaxTokens == 3

\* json.loads(urlopen(ORBIT_URL).read()): the documents the remote may serve
RemoteDocuments ==
    { [ t \in { o.key : o \in S } |-> (CHOOSE o \in S : o.key = t).value ]
        : S \in { T \in SUBSET OrbitTokens : Cardinality(T) <= MaxTokens } }

StartsWith(s, prefix) ==
    Len(s) >= Len(prefix) /\ SubSeq(s, 1, Len(prefix)) = prefix

\* {k: v for k, v in data.items() if k.startswith(ORBIT_COLOR_PREFIX)}
get_updated_colors(data) ==
    [ k \in { t \in DOMAIN data : StartsWith(t, ORBIT_COLOR_PREFIX) } |-> data[k] ]

colorsFolder == << "Colors" >>
codePath == colorsFolder \o << source_filename_plural \o ".swift" >>
codePathUIColor == colorsFolder \o << "UI" \o source_filename_plural \o ".swift" >>
assetPath == colorsFolder \o << source_filename_plural \o ".xcassets" >>

----------------------------------------------------------------------------
(* update_colors_jira_task.py                                              *)

\* how many issues / versions a tracker query may return: none, one, several
TrackerCounts == { 0, 1, 2 }

\* Variant: 1 is returned once the issue is created
create_FiledReturnsOne(issues, versions) ==
    IF issues > 0
    THEN IF issues > 1
         THEN [ result |-> 1, raised |-> FALSE, filed |-> FALSE,
                printed |-> << "More than 1 issue found" >> ]
         ELSE [ result |-> 0, raised |-> FALSE, filed |-> FALSE,
                printed |-> << "An issue for Updating Orbit Colors already exists" >> ]
    ELSE IF versions > 1
         THEN [ result |-> 1, raised |-> FALSE, filed |-> FALSE,
                printed |-> << "More than one \"Next App Store\" version found! Use Jira search to check them." >> ]
         ELSE IF versions = 0
              \* next_app_store_versions[0] on an empty list: IndexError
              THEN [ result |-> -1, raised |-> TRUE, filed |-> FALSE,
                     printed |-> << >> ]
              ELSE [ result |-> 1, raised |-> FALSE, filed |-> TRUE,
                     printed |-> << "New issue for Updating Orbit Colors was created",
                                    "Link: https://jira.kiwi.com/projects/MOBILE/issues/" >> ]

\* create(), given the number of unresolved "Update Orbit Colors" issues
\* and the number of "Next App Store" versions the tracker returns:
\* the value returned (-1 when it raises instead), whether an issue was
\* created, and what it printed.
create(issues, versions) ==
    IF issues > 0
    THEN IF issues > 1
         THEN [ result |-> 1, raised |-> FALSE, filed |-> FALSE,
                printed |-> << "More than 1 issue found" >> ]
         ELSE [ result |-> 0, raised |-> FALSE, filed |-> FALSE,
                printed |-> << "An issue for Updating Orbit Colors already exists" >> ]
    ELSE IF versions > 1
         THEN [ result |-> 1, raised |-> FALSE, filed |-> FALSE,
                printed |-> << "More than one \"Next App Store\" version found! Use Jira search to check them." >> ]
         ELSE IF versions = 0
              \* next_app_store_versions[0] on an empty list: IndexError
              THEN [ result |-> -1, raised |-> TRUE, filed |-> FALSE,
                     printed |-> << >> ]
              ELSE [ result |-> 0, raised |-> FALSE, filed |-> TRUE,
                     printed |-> << "New issue for Updating Orbit Colors was created",
                                    "Link: https://jira.kiwi.com/projects/MOBILE/issues/" >> ]

JiraIdle == [ calls |-> 0, issues |-> 0, versions |-> 0,
              result |-> -1, raised |-> FALSE, filed |-> FALSE ]

----------------------------------------------------------------------------
(* update_colors.py: __main__                                              *)

\* Lines 119-122: `if not isRunningInCheckOnlyMode()`: rmtree, then mkdir
RecreatedDirs(ds, mode) ==
    IF ~mode THEN RmTreeDirs(ds, assetPath) \cup { assetPath } ELSE ds

\* Variant: the folder is recreated in either mode
RecreatedFiles_AnyMode(fs, mode) == RmTreeFiles(fs, assetPath)

RecreatedFiles(fs, mode) ==
    IF ~mode THEN RmTreeFiles(fs, assetPath) ELSE fs

\* Variant: only Colors.swift is compared
isUpdateAvailable_ColorOnly(fs, updatedSourceContent, updatedSourceContentUIColor) ==
    updatedSourceContent # ReadFile(fs, codePath)

\* Variant: the Color listing is written to both files
WriteSources_SameContent(fs, updatedSourceContent, updatedSourceContentUIColor) ==
    WriteFile(WriteFile(fs, codePath, updatedSourceContent),
              codePathUIColor, updatedSourceContent)

\* Line 173: the rendered listings against the files on disk
isUpdateAvailable(fs, updatedSourceContent, updatedSourceContentUIColor) ==
    \/ updatedSourceContent # ReadFile(fs, codePath)
    \/ updatedSourceContentUIColor # ReadFile(fs, codePathUIColor)

\* Lines 181-186: recreate the color extensions source files
WriteSources(fs, updatedSourceContent, updatedSourceContentUIColor) ==
    WriteFile(WriteFile(fs, codePath, updatedSourceContent),
              codePathUIColor, updatedSourceContentUIColor)

NoEntry == [ key |-> << >>, key_tokens |-> << >>, group |-> "", name |-> "",
             description |-> "", rgb_hex_colors |-> << >> ]

NotGenerated == [ valid |-> FALSE, colors |-> << >> ]

colorVars == << checkOnly, colors, lastColorGroup, sourceColorLines,
                sourceUIColorLines, entry, jira, generatedFrom >>

iconVars == << icon_values, case_lines, value_lines, value_extension_lines >>

illustrationVars == << illustration_listing, illustration_names, attempts >>

simulatorVars == << argv, simulators_json, simulator_id, toolCalls >>

nonColorVars == << iconVars, illustrationVars, simulatorVars >>

nonIconVars == << colorVars, illustrationVars, simulatorVars >>

nonIllustrationVars == << colorVars, iconVars, simulatorVars >>

nonSimulatorVars == << colorVars, iconVars, illustrationVars, dirs, files,
                       todo, listing >>

\* Lines 112-126: fetch the tokens, resolve the paths and, unless in
\* check-only mode, remove and recreate Colors.xcassets.  The process is
\* started on whatever tree the previous process left.
ColorsStart ==
    /\ script = "colors"
    /\ pc = "start"
    /\ \E data \in RemoteDocuments, mode \in BOOLEAN :
         /\ colors' = get_updated_colors(data)
         /\ checkOnly' = mode
         /\ todo' = Sorted(DOMAIN get_updated_colors(data))
         /\ dirs' = RecreatedDirs(dirs, mode)
         /\ files' = RecreatedFiles(files, mode)
         /\ generatedFrom' = IF ~mode THEN NotGenerated ELSE generatedFrom
    /\ sourceColorLines' = << >>
    /\ sourceUIColorLines' = << >>
    /\ lastColorGroup' = ""
    /\ entry' = NoEntry
    /\ listing' = << >>
    /\ jira' = JiraIdle
    /\ stdout' = << >>
    /\ exitCode' = -1
    /\ pc' = "loop"
    /\ UNCHANGED << script, nonColorVars >>

\* an uncaught exception: traceback, exit status 1
Crashed ==
    /\ pc' = "crashed"
    /\ exitCode' = 1

\* Lines 128-167: one iteration of `for key, value in sorted(colors.items())`
ColorsEntry ==
    /\ script = "colors"
    /\ pc = "loop"
    /\ todo # << >>
    /\ LET key == Head(todo)
           value == colors[key]
           key_tokens == camel_case_split(key)
           group == Str(key_tokens[1])
           name == Str(lowercase_first_letter(Concat(key_tokens)))
           description == Str(JoinChars(<< " " >>, key_tokens))
           runs == DigitRuns(value, 1)
           rgb_hex_colors == [ i \in DOMAIN runs |-> Str(str_to_hexa(runs[i])) ]
           groupPath == assetPath \o << group >>
           colorSetPath == groupPath \o << description \o ".colorset" >>
           newGroup == group # lastColorGroup
           header == IF newGroup THEN << source_group_template(group) >> ELSE << >>
           mark == IF newGroup
                   THEN << [ kind |-> "group", key |-> key, group |-> group,
                             name |-> << >>, description |-> "" ] >>
                   ELSE << >>
       IN
       IF key_tokens = << >>
       THEN \* key_tokens[0]: IndexError
            /\ Crashed
            /\ entry' = [ entry EXCEPT !.key = key, !.key_tokens = << >> ]
            /\ UNCHANGED << todo, lastColorGroup, sourceColorLines,
                            sourceUIColorLines, listing, dirs, files >>
       ELSE IF name = "white"
       THEN \* default system white color will be used due to name clash
            /\ todo' = Tail(todo)
            /\ entry' = [ entry EXCEPT !.key = key, !.key_tokens = key_tokens,
                                       !.group = group, !.name = name ]
            /\ UNCHANGED << pc, exitCode, lastColorGroup, sourceColorLines,
                            sourceUIColorLines, listing, dirs, files >>
       ELSE IF Len(rgb_hex_colors) # 3
       THEN \* assert: "Expected 3 decimal RGB values from JSON"
            /\ Crashed
            /\ entry' = [ key |-> key, key_tokens |-> key_tokens, group |-> group,
                          name |-> name, description |-> description,
                          rgb_hex_colors |-> rgb_hex_colors ]
            /\ UNCHANGED << todo, lastColorGroup, sourceColorLines,
                            sourceUIColorLines, listing, dirs, files >>
       ELSE /\ todo' = Tail(todo)
            /\ entry' = [ key |-> key, key_tokens |-> key_tokens, group |-> group,
                          name |-> name, description |-> description,
                          rgb_hex_colors |-> rgb_hex_colors ]
            /\ lastColorGroup' = group
            /\ sourceColorLines' =
                 sourceColorLines \o header
                 \o << source_line_template(name, description) >>
            /\ sourceUIColorLines' =
                 sourceUIColorLines \o header
                 \o << source_line_template_uicolor(name, description) >>
            /\ listing' =
                 listing \o mark
                 \o << [ kind |-> "color", key |-> key, group |-> group,
                          name |-> lowercase_first_letter(Concat(key_tokens)),
                          description |-> description ] >>
            /\ IF checkOnly
               THEN UNCHANGED << dirs, files >>
               ELSE /\ dirs' = dirs \cup { groupPath, colorSetPath }
                    /\ files' =
                         WriteFile(
                           WriteFile(files, groupPath \o << contents_filename >>,
                                     xcassets_header),
                           colorSetPath \o << contents_filename >>,
                           xcassets_color_template(rgb_hex_colors[1],
                                                   rgb_hex_colors[2],
                                                   rgb_hex_colors[3]))
            /\ UNCHANGED << pc, exitCode >>
    /\ UNCHANGED << script, stdout, checkOnly, colors, jira, generatedFrom,
                    nonColorVars >>

\* Lines 169-186: render both listings; in check-only mode compare them with
\* the files on disk, call create() on a difference and exit with its value;
\* otherwise write both files.
ColorsFinish ==
    /\ script = "colors"
    /\ pc = "loop"
    /\ todo = << >>
    /\ LET updatedSourceContent == source_template(Join("\n", sourceColorLines))
           updatedSourceContentUIColor ==
               source_template_uicolor(Join("\n", sourceUIColorLines))
       IN
       IF checkOnly
       THEN /\ IF isUpdateAvailable(files, updatedSourceContent,
                                    updatedSourceContentUIColor)
               THEN \E issues \in TrackerCounts, versions \in TrackerCounts :
                      LET r == create(issues, versions) IN
                      /\ jira' = [ calls |-> jira.calls + 1, issues |-> issues,
                                   \* project_versions() is queried only when
                                   \* the search returned nothing
                                   versions |-> IF issues > 0 THEN 0 ELSE versions,
                                   result |-> r.result,
                                   raised |-> r.raised, filed |-> r.filed ]
                      /\ stdout' = stdout \o r.printed
                      /\ IF r.raised
                         THEN Crashed
                         ELSE /\ pc' = "done"
                              /\ exitCode' = r.result
               ELSE /\ pc' = "done"
                    /\ exitCode' = 0
                    /\ UNCHANGED << jira, stdout >>
            /\ UNCHANGED << files, generatedFrom >>
       ELSE /\ files' = WriteSources(files, updatedSourceContent,
                                     updatedSourceContentUIColor)
            /\ generatedFrom' = [ valid |-> TRUE, colors |-> colors ]
            /\ pc' = "done"
            /\ exitCode' = 0
            /\ UNCHANGED << jira, stdout >>
    /\ UNCHANGED << script, dirs, checkOnly, colors, todo, lastColorGroup,
                    sourceColorLines, sourceUIColorLines, entry, listing,
                    nonColorVars >>

\* sys.exit(exitCode) at line 179, the end of the script at line 186, or the
\* interpreter ending on an uncaught exception: the process is gone and
\* with it everything but the working tree; the script can be run again.
ColorsExit ==
    /\ script = "colors"
    /\ pc \in { "done", "crashed" }
    /\ pc' = "start"
    /\ exitCode' = -1
    /\ stdout' = << >>
    /\ checkOnly' = FALSE
    /\ colors' = << >>
    /\ todo' = << >>
    /\ lastColorGroup' = ""
    /\ sourceColorLines' = << >>
    /\ sourceUIColorLines' = << >>
    /\ entry' = NoEntry
    /\ listing' = << >>
    /\ jira' = JiraIdle
    /\ UNCHANGED << script, dirs, files, generatedFrom, nonColorVars >>

----------------------------------------------------------------------------
(* update_icons.py                                                         *)

icons_source_header == "\n// Generated by 'Automation/update_icons.py'\n"

icons_source_template(cases, values) ==
    icons_source_header
    \o "public extension Icon {\n\n    enum Symbol: CaseIterable {\n"
    \o cases
    \o "\n\n        public var value: String {\n            switch self {\n"
    \o values
    \o "\n            }\n        }\n    }\n}\n"

icons_source_extensions_template(values) ==
    icons_source_header
    \o "public extension Icon.Content {\n\n" \o values \o "\n}\n"

iconsFolder == << "Icons" >>
icons_swift_path == iconsFolder \o << "Icons.swift" >>
icons_content_swift_path == iconsFolder \o << "Icon.Content+Extensions.swift" >>
icon_font_path == iconsFolder \o << "Icons.ttf" >>

\* string.split("-"): the segments between the hyphens
RECURSIVE SplitOn(_, _, _)
SplitOn(s, sep, acc) ==
    IF s = << >> THEN << acc >>
    ELSE IF Head(s) = sep THEN << acc >> \o SplitOn(Tail(s), sep, << >>)
    ELSE SplitOn(Tail(s), sep, Append(acc, Head(s)))

\* str.lower()
LowerCase(s) == [ i \in DOMAIN s |-> ToLower(s[i]) ]

\* str.title(): a letter is upper-cased when no letter precedes it, and
\* lower-cased when one does
Title(s) ==
    [ i \in DOMAIN s |->
        IF i > 1 /\ s[i - 1] \in (Upper \cup Lower)
        THEN ToLower(s[i]) ELSE ToUpper(s[i]) ]

\* head, *tail = string.split("-")
\* "".join([head.lower()] + [x.title() for x in tail])
kebab_case_to_camel_case(string) ==
    LET parts == SplitOn(string, "-", << >>)
        head == Head(parts)
        tail == Tail(parts)
    IN  LowerCase(head) \o Concat([ i \in DOMAIN tail |-> Title(tail[i]) ])

\* { k: v for (k, v) in pairs }: a glyph name met again keeps its place and
\* takes the later value
RECURSIVE dictionary_from_xml(_, _)
dictionary_from_xml(pairs, acc) ==
    IF pairs = << >> THEN acc
    ELSE LET p == Head(pairs)
             at == { i \in DOMAIN acc : acc[i].name = p.name }
         IN  dictionary_from_xml(Tail(pairs),
                IF at = {} THEN Append(acc, p)
                ELSE [ i \in DOMAIN acc |-> IF i \in at THEN p ELSE acc[i] ])

\* the comparison of the sort key, lambda x: x[0].lower()
IconKeyLess(a, b) == StrLess(LowerCase(a.name), LowerCase(b.name))

\* Variant: sorted(items) with no key, the names compared as they are
RECURSIVE SortedIcons_CaseSensitive(_, _)
SortedIcons_CaseSensitive(items, acc) ==
    IF items = << >> THEN acc
    ELSE LET x == Head(items)
             n == Cardinality({ i \in DOMAIN acc : ~StrLess(x.name, acc[i].name) })
         IN  SortedIcons_CaseSensitive(Tail(items),
                SubSeq(acc, 1, n) \o << x >> \o SubSeq(acc, n + 1, Len(acc)))

\* sorted(items, key = ...): Python's sort is stable, so an item goes after
\* every item already placed whose key is not greater than its own
RECURSIVE SortedIcons(_, _)
SortedIcons(items, acc) ==
    IF items = << >> THEN acc
    ELSE LET x == Head(items)
             n == Cardinality({ i \in DOMAIN acc : ~IconKeyLess(x, acc[i]) })
         IN  SortedIcons(Tail(items),
                SubSeq(acc, 1, n) \o << x >> \o SubSeq(acc, n + 1, Len(acc)))

\* Lines 85-90.  value.encode("unicode_escape") spells a character of the
\* basic multilingual plane from U+0100 on as \uXXXX, and only then does
\* the text of the bytes object hold "\u"; what follows the last "u" is the
\* four hex digits.  Any other character takes the else branch,
\* hex(ord(value))[2:].zfill(4).
inner_value(value) ==
    IF value >= 256 /\ value <= 65535
    THEN LET escaped == << "\\", "u" >> \o ZeroFill(HexDigits(value), 4)
         IN  SubSeq(escaped, 3, Len(escaped))
    ELSE ZeroFill(HexDigits(value), 4)

\* The glyphs orbit-icons.svg may list: glyph-name and the code point of
\* its unicode attribute.  Two names differ only in letter case, and one
\* goes on with a letter where another has its hyphen.
OrbitGlyphs ==
    { [ name |-> << "a","d","m","i","n" >>, value |-> 59648 ],
      [ name |-> << "a","r","r","o","w","-","u","p" >>, value |-> 59649 ],
      [ name |-> << "a","r","r","o","w","s" >>, value |-> 59650 ],
      [ name |-> << "A","d","m","i","n" >>, value |-> 233 ],
      [ name |-> << "Z","o","o","m","-","i","n" >>, value |-> 128512 ] }

\* the glyph elements of one orbit-icons.svg, in document order
RECURSIVE GlyphLists(_)
GlyphLists(n) ==
    IF n = 0 THEN { << >> }
    ELSE GlyphLists(n - 1)
         \cup { Append(l, g) : l \in { x \in GlyphLists(n - 1) : Len(x) = n - 1 },
                               g \in OrbitGlyphs }

\* Lines 57-79: download and unpack the font bundle, replace Icons.ttf, read
\* the glyph index, remove the bundle (font.zip and the unpacked folder are
\* created and removed within this step), start the three listings with the
\* "none" entry.
IconsStart ==
    /\ script = "icons"
    /\ pc = "start"
    /\ \E pairs \in GlyphLists(MaxTokens) :
         /\ icon_values' = dictionary_from_xml(pairs, << >>)
         /\ todo' = SortedIcons(dictionary_from_xml(pairs, << >>), << >>)
    /\ files' = WriteFile(files, icon_font_path, "orbit-icons-font/orbit-icons.ttf")
    /\ case_lines' = << "        /// Absence of Orbit icon.\n        case none" >>
    /\ value_lines' = << "                case .none: return \"\"" >>
    /\ value_extension_lines' =
         << "    /// Absence of Orbit icon.\n    static let none: Self = .symbol(.none)" >>
    /\ listing' = << [ kind |-> "none", key |-> << >>, group |-> "",
                        name |-> << "n","o","n","e" >>, description |-> "" ] >>
    /\ pc' = "loop"
    /\ UNCHANGED << script, dirs, stdout, exitCode, nonIconVars >>

\* Lines 81-96: one iteration of the loop over the sorted glyphs.  (A TLA+
\* string cannot hold a backquote: in the doc comments ' stands for it.)
IconsEntry ==
    /\ script = "icons"
    /\ pc = "loop"
    /\ todo # << >>
    /\ LET icon_name == Head(todo).name
           value == Head(todo).value
           swift_icon_name == Str(kebab_case_to_camel_case(icon_name))
           swift_value == "\\u{" \o Str(inner_value(value)) \o "}"
       IN
       /\ case_lines' = Append(case_lines,
              "        /// Orbit '" \o swift_icon_name
              \o "' icon symbol.\n        case " \o swift_icon_name)
       /\ value_lines' = Append(value_lines,
              "                case ." \o swift_icon_name \o ": return \""
              \o swift_value \o "\"")
       /\ value_extension_lines' = Append(value_extension_lines,
              "    /// Orbit '" \o swift_icon_name
              \o "' icon symbol with unspecified color.\n    static let "
              \o swift_icon_name \o ": Self = .symbol(." \o swift_icon_name \o ")")
       /\ listing' = Append(listing,
              [ kind |-> "icon", key |-> icon_name, group |-> "",
                name |-> kebab_case_to_camel_case(icon_name), description |-> "" ])
    /\ todo' = Tail(todo)
    /\ UNCHANGED << script, pc, dirs, files, stdout, exitCode, icon_values,
                    nonIconVars >>

\* Lines 98-105: render and overwrite both source files
IconsFinish ==
    /\ script = "icons"
    /\ pc = "loop"
    /\ todo = << >>
    /\ files' =
         WriteFile(
           WriteFile(files, icons_swift_path,
                     icons_source_template(Join("\n", case_lines),
                                           Join("\n", value_lines))),
           icons_content_swift_path,
           icons_source_extensions_template(Join("\n", value_extension_lines)))
    /\ pc' = "done"
    /\ exitCode' = 0
    /\ UNCHANGED << script, dirs, stdout, todo, listing, iconVars, nonIconVars >>

----------------------------------------------------------------------------
(* update_illustrations.py                                                 *)

content_template(name) ==
    "{\n  \"images\" : [\n    {\n      \"filename\" : \"" \o name \o "@1x.png\",\n"
    \o "      \"idiom\" : \"universal\",\n      \"scale\" : \"1x\"\n    },\n    {\n"
    \o "      \"filename\" : \"" \o name \o "@2x.png\",\n"
    \o "      \"idiom\" : \"universal\",\n      \"scale\" : \"2x\"\n    },\n    {\n"
    \o "      \"filename\" : \"" \o name \o "@3x.png\",\n"
    \o "      \"idiom\" : \"universal\",\n      \"scale\" : \"3x\"\n    }\n  ],\n"
    \o "  \"info\" : {\n    \"author\" : \"xcode\",\n    \"version\" : 1\n  }\n}\n"

illustration_source_template(cases) ==
    "import Foundation\nimport Orbit\n\npublic extension Illustration {\n\n"
    \o "    enum Asset: String, CaseIterable, AssetNameProviding {\n"
    \o cases \o "\n    }\n}\n"

illustration_heights == << 200, 400, 600 >>

illustration_url_template(illustrationName) ==
    "https://images.kiwi.com/illustrations/originals/" \o illustrationName \o ".png"

source_filename == "Illustrations.swift"

\* '        case ', the text every element of illustration_names starts with
CaseIndent == << " "," "," "," "," "," "," "," ","c","a","s","e"," " >>

illustrationsFolder == << "Illustrations" >>
assetDownloadedPath == illustrationsFolder \o << "Illustrations.xcassets" >>

\* The names the remote consts.mts may list
OrbitIllustrations ==
    { << "A","i","r","H","e","l","p" >>,
      << "B","o","a","r","d","i","n","g" >>,
      << "L","o","u","n","g","e" >> }

\* get_illustration_names(): the listings the remote may serve, each name once
RECURSIVE IllustrationListings(_)
IllustrationListings(n) ==
    IF n = 0 THEN { << >> }
    ELSE IllustrationListings(n - 1)
         \cup UNION { { Append(l, x) : x \in OrbitIllustrations \ Range(l) } :
                       l \in { y \in IllustrationListings(n - 1) : Len(y) = n - 1 } }

\* How the download and the resize of one illustration may go: all well;
\* urlretrieve raises; one of the resize or optimize commands of one height
\* ends with a non-zero exit status (subprocess.run is called without
\* check, so nothing is raised); subprocess.run itself raises at one height.
Outcomes ==
    { [ kind |-> "ok", at |-> 0 ], [ kind |-> "fetch_error", at |-> 0 ] }
    \cup { [ kind |-> "resize_failed", at |-> h ] : h \in DOMAIN illustration_heights }
    \cup { [ kind |-> "spawn_error", at |-> h ] : h \in DOMAIN illustration_heights }

\* str(e) of the exception caught
ErrorText(outcome) ==
    IF outcome.kind = "fetch_error" THEN "HTTP Error 404: Not Found"
    ELSE "[Errno 2] No such file or directory: '/bin/sh'"

\* print(f'<mark>{e}')   (the mark is an emoji in the source)
ErrorLine(outcome) == "[!] " \o ErrorText(outcome)

\* Lines 84-96: the heights from idx on.  A command that exits non-zero
\* writes nothing and the loop goes on; an exception leaves the loop.
RECURSIVE ResizeFrom(_, _, _, _, _)
ResizeFrom(fs, illustrationName, folderPath_, outcome, idx) ==
    IF idx > Len(illustration_heights)
    THEN [ files |-> fs, printed |-> << >>, raised |-> FALSE ]
    ELSE LET height == illustration_heights[idx]
             resizedFilePath ==
                 folderPath_ \o << illustrationName \o "@" \o ToString(idx) \o "x.png" >>
             progress == "[" \o ToString(height) \o "@" \o ToString(idx) \o "x] ... "
         IN
         IF outcome.kind = "spawn_error" /\ outcome.at = idx
         THEN [ files |-> fs, printed |-> << progress >>, raised |-> TRUE ]
         ELSE LET resized ==
                      IF outcome.kind = "resize_failed" /\ outcome.at = idx
                      THEN fs
                      ELSE WriteFile(fs, resizedFilePath,
                               illustrationName \o " x" \o ToString(height))
                  rest == ResizeFrom(resized, illustrationName, folderPath_,
                                     outcome, idx + 1)
              IN  [ rest EXCEPT !.printed = << progress >> \o rest.printed ]

\* Lines 74-102
download_and_resize_illustration(fs, illustrationName, folderPath_, outcome) ==
    LET url == illustration_url_template(illustrationName)
        originalFilepath == folderPath_ \o << illustrationName \o "@full.png" >>
        downloading == "Downloading [" \o url \o "] ..."
    IN
    IF outcome.kind = "fetch_error"
    THEN [ files |-> fs, printed |-> << downloading, ErrorLine(outcome) >> ]
    ELSE LET fetched == WriteFile(fs, originalFilepath, illustrationName \o " original")
             r == ResizeFrom(fetched, illustrationName, folderPath_, outcome, 1)
         IN
         IF r.raised
         THEN [ files |-> r.files,
                printed |-> << downloading, "Resizing [" \o illustrationName \o "] -> " >>
                            \o r.printed \o << ErrorLine(outcome) >> ]
         ELSE \* print(); os.remove(originalFilepath)
              [ files |-> { f \in r.files : f.path # originalFilepath },
                printed |-> << downloading, "Resizing [" \o illustrationName \o "] -> " >>
                            \o r.printed \o << "" >> ]

\* Lines 116-119: resolve the folder, make sure Illustrations.xcassets
\* exists, fetch the listing
IllustrationsStart ==
    /\ script = "illustrations"
    /\ pc = "start"
    /\ dirs' = dirs \cup { assetDownloadedPath }
    /\ \E names \in IllustrationListings(MaxTokens) :
         /\ illustration_listing' = names
         /\ todo' = names
    /\ illustration_names' = << >>
    /\ attempts' = << >>
    /\ pc' = "loop"
    /\ UNCHANGED << script, files, stdout, exitCode, listing, nonIllustrationVars >>

\* Lines 121-132: one iteration of the loop over the listing
IllustrationsEntry ==
    /\ script = "illustrations"
    /\ pc = "loop"
    /\ todo # << >>
    /\ \E outcome \in Outcomes :
         LET illustration == Head(todo)
             folderPath == assetDownloadedPath \o << Str(illustration) \o ".imageset" >>
             r == download_and_resize_illustration(
                      WriteFile(files, folderPath \o << "Contents.json" >>,
                                content_template(Str(illustration))),
                      Str(illustration), folderPath, outcome)
         IN
         /\ dirs' = dirs \cup { folderPath }
         /\ files' = r.files
         /\ stdout' = stdout \o r.printed
         /\ illustration_names' = Append(illustration_names,
                CaseIndent \o << ToLower(illustration[1]) >> \o Tail(illustration))
         /\ attempts' = Append(attempts, [ name |-> illustration, outcome |-> outcome ])
    /\ todo' = Tail(todo)
    /\ UNCHANGED << script, pc, exitCode, listing, illustration_listing,
                    nonIllustrationVars >>

\* illustration_names.sort(): ascending by code point
RECURSIVE SortedLines(_)
SortedLines(lines) ==
    IF lines = << >> THEN << >>
    ELSE LET least == CHOOSE i \in DOMAIN lines :
                        \A j \in DOMAIN lines : ~StrLess(lines[j], lines[i])
         IN  << lines[least] >>
             \o SortedLines([ k \in 1..(Len(lines) - 1) |->
                                IF k < least THEN lines[k] ELSE lines[k + 1] ])

\* Lines 134-139: sort the cases and recreate Illustrations.swift
IllustrationsFinish ==
    /\ script = "illustrations"
    /\ pc = "loop"
    /\ todo = << >>
    /\ files' =
         LET sorted == SortedLines(illustration_names) IN
         WriteFile(files, illustrationsFolder \o << source_filename >>,
                   illustration_source_template(
                       Join("\n", [ i \in DOMAIN sorted |-> Str(sorted[i]) ])))
    /\ illustration_names' = SortedLines(illustration_names)
    /\ pc' = "done"
    /\ exitCode' = 0
    /\ UNCHANGED << script, dirs, stdout, todo, listing, illustration_listing,
                    attempts, nonIllustrationVars >>

----------------------------------------------------------------------------
(* get_simulator.py                                                        *)

DeviceNames == { "iPhone 14", "iPhone SE" }

IosVersions == { << "1","6",".","2" >>, << "1","5",".","5" >> }

\* "com.apple.CoreSimulator.SimRuntime.iOS-" + "-".join(ios_version.split("."))
ios_runtime_id(ios_version) ==
    "com.apple.CoreSimulator.SimRuntime.iOS-"
    \o Str(JoinChars(<< "-" >>, SplitOn(ios_version, ".", << >>)))

Runtime162 == "com.apple.CoreSimulator.SimRuntime.iOS-16-2"
Runtime155 == "com.apple.CoreSimulator.SimRuntime.iOS-15-5"

\* What `xcrun simctl list -j devices available` may report under "devices"
Inventories ==
    { \* no runtime installed
      [ r \in {} |-> << >> ],
      \* the runtime is there and has no device
      [ r \in { Runtime162 } |-> << >> ],
      \* one available device
      [ r \in { Runtime162 } |->
          << [ name |-> "iPhone 14", udid |-> "UDID-1", isAvailable |-> TRUE ] >> ],
      \* an unavailable device ahead of an available one of the same name
      [ r \in { Runtime162 } |->
          << [ name |-> "iPhone 14", udid |-> "UDID-2", isAvailable |-> FALSE ],
             [ name |-> "iPhone 14", udid |-> "UDID-3", isAvailable |-> TRUE ] >> ],
      \* two runtimes, the device under the other one
      [ r \in { Runtime162, Runtime155 } |->
          IF r = Runtime155
          THEN << [ name |-> "iPhone SE", udid |-> "UDID-4", isAvailable |-> TRUE ] >>
          ELSE << [ name |-> "iPhone 14", udid |-> "UDID-5", isAvailable |-> FALSE ] >> ] }

\* the identifier `xcrun simctl create` gives the device it creates
NewUdid == "UDID-NEW"

\* next((simulator["udid"] for simulator in devices if ...), None); "" stands
\* for None (both are falsy, and no device has an empty udid).  The caller
\* has made sure that runtime_id is a key of the inventory.
find_existing_simulator(json, name, runtime_id) ==
    LET devices == json[runtime_id]
        hits == { i \in DOMAIN devices :
                    devices[i].name = name /\ devices[i].isAvailable }
    IN  IF hits = {} THEN ""
        ELSE devices[CHOOSE i \in hits : \A j \in hits : i <= j].udid

\* subprocess.run is called without check: a command that fails is not an
\* exception, it only leaves stdout empty.
\* Lines 22-27: list the devices, parse the answer, look for the device.
SimulatorList ==
    /\ script = "simulator"
    /\ pc = "start"
    /\ \E ok \in BOOLEAN, inventory \in Inventories :
         LET runtime_id == ios_runtime_id(argv.ios_version) IN
         /\ toolCalls' = Append(toolCalls,
                [ tool |-> "list", device |-> "", ok |-> ok ])
         /\ IF ~ok
            THEN \* json.loads("") raises JSONDecodeError
                 /\ Crashed
                 /\ UNCHANGED << simulators_json, simulator_id >>
            ELSE /\ simulators_json' = inventory
                 /\ IF runtime_id \notin DOMAIN inventory
                    THEN \* json["devices"][runtime_id] raises KeyError
                         /\ Crashed
                         /\ UNCHANGED simulator_id
                    ELSE /\ simulator_id' =
                              find_existing_simulator(inventory, argv.simulator_name,
                                                      runtime_id)
                         /\ pc' = IF find_existing_simulator(inventory,
                                        argv.simulator_name, runtime_id) = ""
                                  THEN "create" ELSE "bootstatus"
                         /\ UNCHANGED exitCode
    /\ UNCHANGED << script, stdout, argv, nonSimulatorVars >>

\* Lines 29-30: `if not simulator_id`: create the device; simulator_id is
\* the whole standard output of the command, the line end included
SimulatorCreate ==
    /\ script = "simulator"
    /\ pc = "create"
    /\ \E ok \in BOOLEAN :
         /\ toolCalls' = Append(toolCalls,
                [ tool |-> "create", device |-> argv.simulator_name, ok |-> ok ])
         /\ simulator_id' = IF ok THEN NewUdid \o "\n" ELSE ""
    /\ pc' = "bootstatus"
    /\ UNCHANGED << script, stdout, exitCode, argv, simulators_json,
                    nonSimulatorVars >>

\* Lines 32-33: boot if needed; blocks until the command ends
SimulatorBootstatus ==
    /\ script = "simulator"
    /\ pc = "bootstatus"
    /\ \E ok \in BOOLEAN :
         toolCalls' = Append(toolCalls,
             [ tool |-> "bootstatus", device |-> simulator_id, ok |-> ok ])
    /\ pc' = "return"
    /\ UNCHANGED << script, stdout, exitCode, argv, simulators_json, simulator_id,
                    nonSimulatorVars >>

\* Lines 35 and 38: print(main()), and the script ends
SimulatorPrint ==
    /\ script = "simulator"
    /\ pc = "return"
    /\ stdout' = Append(stdout, simulator_id)
    /\ pc' = "done"
    /\ exitCode' = 0
    /\ UNCHANGED << script, argv, simulators_json, simulator_id, toolCalls,
                    nonSimulatorVars >>

----------------------------------------------------------------------------
(* The working tree the scripts are started on                             *)

\* A checkout whose generated files were committed by an earlier run on
\* other token data: the sources are out of date and the asset catalog
\* holds a color set the remote no longer serves.
CommittedDirs ==
    { colorsFolder, assetPath, iconsFolder,
      illustrationsFolder, assetDownloadedPath,
      assetDownloadedPath \o << "Insurance.imageset" >>,
      assetDownloadedPath \o << "Lounge.imageset" >>,
      assetPath \o << "Product" >>,
      assetPath \o << "Product", "Product Normal.colorset" >> }

CommittedFiles ==
    { [ path |-> codePath,
        content |-> source_template(Join("\n",
            << source_group_template("Product"),
               source_line_template("productNormal", "Product Normal") >>)) ],
      [ path |-> codePathUIColor,
        content |-> source_template_uicolor(Join("\n",
            << source_group_template("Product"),
               source_line_template_uicolor("productNormal", "Product Normal") >>)) ],
      [ path |-> icons_swift_path, content |-> "// Icons.swift as committed" ],
      [ path |-> icons_content_swift_path,
        content |-> "// Icon.Content+Extensions.swift as committed" ],
      [ path |-> icon_font_path, content |-> "Icons.ttf as committed" ],
      [ path |-> illustrationsFolder \o << source_filename >>,
        content |-> illustration_source_template(
            Join("\n", << "        case insurance", "        case lounge" >>)) ],
      [ path |-> assetDownloadedPath \o << "Insurance.imageset", "Contents.json" >>,
        content |-> content_template("Insurance") ],
      [ path |-> assetDownloadedPath \o << "Insurance.imageset", "Insurance@1x.png" >>,
        content |-> "Insurance x200, committed" ],
      [ path |-> assetDownloadedPath \o << "Lounge.imageset", "Contents.json" >>,
        content |-> content_template("Lounge") ],
      [ path |-> assetDownloadedPath \o << "Lounge.imageset", "Lounge@1x.png" >>,
        content |-> "Lounge x200, committed" ],
      [ path |-> assetPath \o << "Product", contents_filename >>,
        content |-> xcassets_header ],
      [ path |-> assetPath \o << "Product", "Product Normal.colorset", contents_filename >>,
        content |-> xcassets_color_template("00", "A9", "91") ] }

\* The same checkout after Colors.swift alone was brought up to date by hand
HalfUpdatedFiles ==
    WriteFile(CommittedFiles, codePath,
        source_template(Join("\n",
            << source_group_template("Blue"),
               source_line_template("blueNormal", "Blue Normal") >>)))

\* no process has run yet: nothing fetched, nothing rendered
NothingRun ==
    /\ pc = "start"
    /\ stdout = << >>
    /\ exitCode = -1
    /\ checkOnly = FALSE
    /\ colors = << >>
    /\ todo = << >>
    /\ lastColorGroup = ""
    /\ sourceColorLines = << >>
    /\ sourceUIColorLines = << >>
    /\ entry = NoEntry
    /\ listing = << >>
    /\ jira = JiraIdle
    /\ generatedFrom = NotGenerated
    /\ icon_values = << >>
    /\ case_lines = << >>
    /\ value_lines = << >>
    /\ value_extension_lines = << >>
    /\ illustration_listing = << >>
    /\ illustration_names = << >>
    /\ attempts = << >>
    /\ simulators_json = << >>
    /\ simulator_id = ""
    /\ toolCalls = << >>

NoArguments == [ simulator_name |-> "", ios_version |-> << >> ]

InitColors ==
    /\ script = "colors"
    /\ dirs = CommittedDirs
    /\ files \in { CommittedFiles, HalfUpdatedFiles }
    /\ argv = NoArguments
    /\ NothingRun

InitIcons ==
    /\ script = "icons"
    /\ dirs = CommittedDirs
    /\ files = CommittedFiles
    /\ argv = NoArguments
    /\ NothingRun

\* the illustration generator is started on the committed checkout, or on
\* one whose Illustrations.xcassets was never generated
InitIllustrations ==
    /\ script = "illustrations"
    /\ \/ /\ dirs = CommittedDirs
          /\ files = CommittedFiles
       \/ /\ dirs = RmTreeDirs(CommittedDirs, assetDownloadedPath)
          /\ files = RmTreeFiles(CommittedFiles, assetDownloadedPath)
    /\ argv = NoArguments
    /\ NothingRun

\* python get_simulator.py <device name> <iOS version>
InitSimulator ==
    /\ script = "simulator"
    /\ dirs = CommittedDirs
    /\ files = CommittedFiles
    /\ argv \in [ simulator_name : DeviceNames, ios_version : IosVersions ]
    /\ NothingRun

vars == << script, pc, dirs, files, stdout, exitCode, todo, listing,
           colorVars, iconVars, illustrationVars, simulatorVars >>

Init ==
    \/ InitColors
    \/ InitIcons
    \/ InitIllustrations
    \/ InitSimulator

Next ==
    \/ ColorsStart
    \/ ColorsEntry
    \/ ColorsFinish
    \/ ColorsExit
    \/ IconsStart
    \/ IconsEntry
    \/ IconsFinish
    \/ IllustrationsStart
    \/ IllustrationsEntry
    \/ IllustrationsFinish
    \/ SimulatorList
    \/ SimulatorCreate
    \/ SimulatorBootstatus
    \/ SimulatorPrint

Spec == Init /\ [][Next]_vars

----------------------------------------------------------------------------
(* Properties of the color generator                                       *)

KeyBlueNormal ==
    ORBIT_COLOR_PREFIX \o << "B","l","u","e","N","o","r","m","a","l" >>

KeyWhite == ORBIT_COLOR_PREFIX \o << "W","h","i","t","e" >>

\* a color-generator process in check-only mode that got past its loop
CheckOnlyEnded ==
    /\ script = "colors"
    /\ checkOnly
    /\ pc \in { "done", "crashed" }
    /\ todo = << >>

\* the rendered listings differ from the files on disk
ListingsDiffer ==
    \/ source_template(Join("\n", sourceColorLines)) # ReadFile(files, codePath)
    \/ source_template_uicolor(Join("\n", sourceUIColorLines))
         # ReadFile(files, codePathUIColor)

\* C1: no step of a check-only run of the color generator changes the
\* working tree: no directory and no file is created, removed or written.
C1_CheckOnlyChangesNothing ==
    [][ (script = "colors" /\ (checkOnly \/ checkOnly'))
          => (dirs' = dirs /\ files' = files) ]_vars

C1_Witness ==
    /\ CheckOnlyEnded
    /\ pc = "done"
    /\ jira.filed
    /\ Len(listing) >= 4
    /\ \E d \in dirs : IsUnder(d, assetPath) /\ d # assetPath

\* C2: when a check-only run ends, create() was called exactly once if one
\* of the two rendered listings differs from its file, and the exit status
\* is the value it returned; it was not called, and the exit status is 0,
\* if both listings equal their files.
C2_CreateOnDifference ==
    CheckOnlyEnded =>
        IF ListingsDiffer
        THEN /\ jira.calls = 1
             /\ ~jira.raised => (pc = "done" /\ exitCode = jira.result)
        ELSE /\ jira.calls = 0
             /\ pc = "done"
             /\ exitCode = 0

\* only UIColors.swift is out of date, and create() returned 0
C2_Witness ==
    /\ CheckOnlyEnded
    /\ source_template(Join("\n", sourceColorLines)) = ReadFile(files, codePath)
    /\ ListingsDiffer
    /\ jira.calls = 1
    /\ exitCode = 0

\* C3: a check-only run on the token data and the files of a completed
\* non-dry-run run ends with exit status 0 and without a call of create().
C3_CheckAfterGenerate ==
    ( /\ script = "colors"
      /\ checkOnly
      /\ pc \in { "done", "crashed" }
      /\ generatedFrom.valid
      /\ generatedFrom.colors = colors )
    => ( pc = "done" /\ exitCode = 0 /\ jira.calls = 0 )

C3_Witness ==
    /\ CheckOnlyEnded
    /\ generatedFrom.valid
    /\ generatedFrom.colors = colors
    /\ Len(listing) >= 4
    /\ exitCode = 0

\* the tracker state create() calls ambiguous
TrackerAmbiguous ==
    \/ jira.issues > 1
    \/ jira.issues = 0 /\ jira.versions > 1

\* C4 as claimed: a check-only run exits with 0 when no update is detected,
\* and with 1 when an update is detected and a ticket is filed or the
\* tracker state is ambiguous.
C4_Claimed ==
    (CheckOnlyEnded /\ pc = "done") =>
        /\ jira.calls = 0 => exitCode = 0
        /\ (jira.calls = 1 /\ jira.filed) => exitCode = 1
        /\ (jira.calls = 1 /\ TrackerAmbiguous) => exitCode = 1

\* C4 amended: a check-only run exits with 0 when no update is detected, and
\* also when an update is detected and a ticket is filed for it or exactly
\* one unresolved ticket exists already; it exits with 1 when an update is
\* detected and the tracker state is ambiguous.
C4_ExitCodes ==
    (CheckOnlyEnded /\ pc = "done") =>
        /\ jira.calls = 0 => exitCode = 0
        /\ (jira.calls = 1 /\ jira.filed) => exitCode = 0
        /\ (jira.calls = 1 /\ jira.issues = 1) => exitCode = 0
        /\ (jira.calls = 1 /\ TrackerAmbiguous) => exitCode = 1
        /\ jira.filed => (jira.issues = 0 /\ jira.versions = 1)

C4_Witness ==
    /\ CheckOnlyEnded
    /\ pc = "done"
    /\ jira.calls = 1
    /\ jira.filed
    /\ exitCode = 0

\* the loop has parsed the entry paletteBlueNormal, rgb(0,91,172)
ParsedBlueNormal ==
    /\ script = "colors"
    /\ entry.key = KeyBlueNormal
    /\ colors[KeyBlueNormal] = << "r","g","b","(","0",",","9","1",",","1","7","2",")" >>

\* C5 as claimed: paletteBlueNormal is put in group "palette", described as
\* "blue normal", named paletteBlueNormal, with components (00, 5B, AC).
C5_Claimed ==
    ParsedBlueNormal =>
        /\ entry.group = "palette"
        /\ entry.description = "blue normal"
        /\ entry.name = "paletteBlueNormal"
        /\ entry.rgb_hex_colors = << "00", "5B", "AC" >>

\* C5 amended: paletteBlueNormal is put in group "Blue", described as
\* "Blue Normal", named blueNormal, with components (00, 5B, AC).  In
\* general the tokens of a key are its capitalised words only (the
\* lower-case prefix is none of them), the group is the first token, and
\* the identifier is the tokens joined with the first letter lower-cased.
C5_ParsedEntry ==
    /\ ParsedBlueNormal =>
         /\ entry.group = "Blue"
         /\ entry.description = "Blue Normal"
         /\ entry.name = "blueNormal"
         /\ entry.rgb_hex_colors = << "00", "5B", "AC" >>
    /\ (script = "colors" /\ entry.key_tokens # << >>) =>
         /\ ORBIT_COLOR_PREFIX \o Concat(entry.key_tokens) = entry.key
         /\ \A i \in DOMAIN entry.key_tokens : Head(entry.key_tokens[i]) \in Upper
         /\ entry.group = Str(Head(entry.key_tokens))
         /\ entry.name = Str(<< ToLower(entry.key[Len(ORBIT_COLOR_PREFIX) + 1]) >>
                             \o SubSeq(entry.key, Len(ORBIT_COLOR_PREFIX) + 2,
                                       Len(entry.key)))

C5_Witness ==
    /\ ParsedBlueNormal
    /\ pc = "done"
    /\ ~checkOnly
    /\ FileExists(files, assetPath \o << "Blue", "Blue Normal.colorset", contents_filename >>)

\* C7 as claimed: once the loop has ended, the listing holds the header of
\* every group with a rendered entry exactly once, right before the first
\* entry of that group, and no header of any other group.
C7_Claimed ==
    (script = "colors" /\ pc \in { "loop", "done" } /\ todo = << >>) =>
        LET colorAt == { i \in DOMAIN listing : listing[i].kind = "color" }
            headerAt == { i \in DOMAIN listing : listing[i].kind = "group" }
            groups == { listing[i].group : i \in colorAt }
        IN  /\ \A g \in groups :
                 LET first == CHOOSE i \in colorAt :
                                /\ listing[i].group = g
                                /\ \A j \in colorAt : listing[j].group = g => i <= j
                 IN  { i \in headerAt : listing[i].group = g } = { first - 1 }
            /\ \A i \in headerAt : listing[i].group \in groups

----------------------------------------------------------------------------
(* Properties of the listings' order                                       *)

\* the positions of the listing that hold an entry made from a token
TokenEntries == { i \in DOMAIN listing : listing[i].kind \in { "color", "icon" } }

\* C6 as claimed: the entries of a color listing are in strictly ascending
\* order of their identifiers, and those of an icon listing in strictly
\* ascending order of their identifiers compared without regard to case.
C6_Claimed ==
    \A i, j \in TokenEntries :
        i < j =>
            /\ script = "colors" => StrLess(listing[i].name, listing[j].name)
            /\ script = "icons" =>
                 StrLess(LowerCase(listing[i].name), LowerCase(listing[j].name))

\* C6 amended: the entries of a color listing are in strictly ascending
\* order of their token keys (and so of their identifiers, the keys being
\* the prefix followed by capitalised words).  An icon listing starts with
\* the entry "none", whatever the glyphs are; the entries after it are in
\* ascending order of their glyph names lower-cased, which is strict but for
\* glyph names that differ in letter case only, and need not be the order of
\* the identifiers.
C6_ListingOrder ==
    /\ script = "colors" =>
         \A i, j \in TokenEntries :
             i < j => /\ StrLess(listing[i].key, listing[j].key)
                      /\ StrLess(listing[i].name, listing[j].name)
    /\ (script = "icons" /\ pc # "start") =>
         /\ listing # << >>
         /\ listing[1].kind = "none"
         /\ TokenEntries = DOMAIN listing \ { 1 }
         /\ \A i, j \in TokenEntries :
                i < j =>
                   /\ listing[i].key # listing[j].key
                   /\ ~StrLess(LowerCase(listing[j].key), LowerCase(listing[i].key))
                   /\ LowerCase(listing[i].key) # LowerCase(listing[j].key)
                        => StrLess(LowerCase(listing[i].key), LowerCase(listing[j].key))

\* an icon listing of three glyphs, two of them alike but for letter case,
\* the third one starting with a capital
C6_Witness ==
    /\ script = "icons"
    /\ pc = "done"
    /\ Len(listing) = 4
    /\ LowerCase(listing[2].key) = LowerCase(listing[3].key)
    /\ listing[4].key = << "Z","o","o","m","-","i","n" >>

----------------------------------------------------------------------------
(* Properties of the illustration generator                                *)

\* the attempts whose fetch or resize did not go well
FailedAttempts == { i \in DOMAIN attempts : attempts[i].outcome.kind # "ok" }

\* the lines of the output that report an error
LoggedErrors == { i \in DOMAIN stdout : \E o \in Outcomes : stdout[i] = ErrorLine(o) }

imagesetPath(illustration) ==
    assetDownloadedPath \o << Str(illustration) \o ".imageset" >>

\* the case line of Illustrations.swift for an illustration
caseLine(illustration) ==
    Str(CaseIndent \o << ToLower(illustration[1]) >> \o Tail(illustration))

\* every name of the listing has its manifest, was attempted, and the source
\* file lists the names of the listing
BatchCompleted ==
    /\ [ i \in DOMAIN attempts |-> attempts[i].name ] = illustration_listing
    /\ \A i \in DOMAIN illustration_listing :
         ReadFile(files, imagesetPath(illustration_listing[i]) \o << "Contents.json" >>)
           = content_template(Str(illustration_listing[i]))
    /\ \E cases \in { [ i \in DOMAIN illustration_names |-> Str(illustration_names[i]) ] } :
         /\ { cases[i] : i \in DOMAIN cases }
              = { caseLine(n) : n \in Range(illustration_listing) }
         /\ ReadFile(files, illustrationsFolder \o << source_filename >>)
              = illustration_source_template(Join("\n", cases))

\* C8 as claimed: when a run of the illustration generator ends, every fetch
\* or resize that failed was logged with its error message, every
\* illustration of the listing has its manifest and was attempted, and the
\* source file is written.
C8_Claimed ==
    (script = "illustrations" /\ pc = "done") =>
        /\ Cardinality(LoggedErrors) = Cardinality(FailedAttempts)
        /\ \A i \in FailedAttempts : \E k \in LoggedErrors :
               stdout[k] = ErrorLine(attempts[i].outcome)
        /\ BatchCompleted

\* the directories and files below root
DirsBelow(root) == { d \in dirs : IsUnder(d, root) /\ d # root }
PathsBelow(root) == { f.path : f \in { g \in files : IsUnder(g.path, root) } }

\* the positions of the color listing that hold a color
ColorEntries == { i \in DOMAIN listing : listing[i].kind = "color" }

colorGroupPath(e) == assetPath \o << e.group >>
colorSetPath(e) == assetPath \o << e.group, e.description \o ".colorset" >>

\* Colors.xcassets holds the group and color set folders of the listing,
\* each with its Contents.json, and nothing else
ColorsTreeExact ==
    /\ assetPath \in dirs
    /\ DirsBelow(assetPath) =
         { colorGroupPath(listing[i]) : i \in ColorEntries }
         \cup { colorSetPath(listing[i]) : i \in ColorEntries }
    /\ PathsBelow(assetPath) =
         { colorGroupPath(listing[i]) \o << contents_filename >> : i \in ColorEntries }
         \cup { colorSetPath(listing[i]) \o << contents_filename >> : i \in ColorEntries }

\* Illustrations.xcassets holds the folders of the listing and the images
\* this run made, and nothing else
IllustrationsTreeExact ==
    /\ DirsBelow(assetDownloadedPath)
         = { imagesetPath(n) : n \in Range(illustration_listing) }
    /\ \A f \in files :
         IsUnder(f.path, assetDownloadedPath) =>
            \E n \in Range(illustration_listing) :
               /\ IsUnder(f.path, imagesetPath(n))
               /\ \/ f.content = content_template(Str(n))
                  \/ \E h \in DOMAIN illustration_heights :
                       f.content = Str(n) \o " x" \o ToString(illustration_heights[h])

\* C9 as claimed: after a completed non-dry-run run of the color generator
\* or of the illustration generator the asset tree holds a folder for
\* exactly the names of the run, and no folder or image of an earlier run.
C9_Claimed ==
    /\ (script = "colors" /\ pc = "done" /\ ~checkOnly) => ColorsTreeExact
    /\ (script = "illustrations" /\ pc = "done") => IllustrationsTreeExact

\* C9 amended: after a completed non-dry-run run of the color generator,
\* Colors.xcassets holds the folders of exactly the colors of the run (white
\* left out) and nothing of an earlier run, and both source files are the
\* rendering of these colors.  After a completed run of the illustration
\* generator, Illustrations.xcassets holds a folder with a fresh manifest
\* for every name of the run and the source file lists exactly these names;
\* the folders and images earlier runs left are not removed.
C9_Regenerated ==
    /\ (script = "colors" /\ pc = "done" /\ ~checkOnly) =>
         /\ ColorsTreeExact
         /\ { listing[i].key : i \in ColorEntries } = DOMAIN colors \ { KeyWhite }
         /\ ReadFile(files, codePath) = source_template(Join("\n", sourceColorLines))
         /\ ReadFile(files, codePathUIColor)
              = source_template_uicolor(Join("\n", sourceUIColorLines))
    /\ (script = "illustrations" /\ pc = "done") =>
         /\ { imagesetPath(n) : n \in Range(illustration_listing) }
              \subseteq DirsBelow(assetDownloadedPath)
         /\ BatchCompleted

\* a non-dry-run run of the color generator ended on a tree that held the
\* color set of an earlier run
C9_Witness ==
    /\ script = "colors"
    /\ pc = "done"
    /\ ~checkOnly
    /\ Cardinality(ColorEntries) >= 2
    /\ KeyWhite \in DOMAIN colors
    /\ (assetPath \o << "Product" >>) \notin dirs

----------------------------------------------------------------------------
(* Properties of the simulator resolver                                    *)

CallsOf(tool) == { i \in DOMAIN toolCalls : toolCalls[i].tool = tool }

\* the runtime asked for has an available device of the name asked for
DeviceExists ==
    LET runtime_id == ios_runtime_id(argv.ios_version) IN
    /\ runtime_id \in DOMAIN simulators_json
    /\ \E i \in DOMAIN simulators_json[runtime_id] :
         /\ simulators_json[runtime_id][i].name = argv.simulator_name
         /\ simulators_json[runtime_id][i].isAvailable

\* C10 as claimed: the resolver ends as a fatal error when a tool failed.
\* Otherwise it returns the identifier of an existing available device
\* without a create step, or else, also when the inventory lists no device
\* for the runtime, the identifier of the device made by its only create
\* step; the boot-status step ran on the identifier returned.
C10_Claimed ==
    (script = "simulator" /\ pc \in { "done", "crashed" }) =>
        IF \E i \in DOMAIN toolCalls : ~toolCalls[i].ok
        THEN pc = "crashed" /\ exitCode # 0
        ELSE /\ pc = "done"
             /\ IF DeviceExists
                THEN /\ CallsOf("create") = {}
                     /\ \E i \in DOMAIN simulators_json[ios_runtime_id(argv.ios_version)] :
                          simulators_json[ios_runtime_id(argv.ios_version)][i].udid
                            = simulator_id
                ELSE /\ Cardinality(CallsOf("create")) = 1
                     /\ simulator_id \in { NewUdid, NewUdid \o "\n" }
             /\ \E i \in CallsOf("bootstatus") : toolCalls[i].device = simulator_id
             /\ stdout = << simulator_id >>

====
